---- MODULE Spec2Model ----
(***************************************************************************)
(* A model of the script execution engine of `resting`:                    *)
(*   - the History store            (src/resting/history.py)               *)
(*   - key-or-index addressing      (src/resting/utils.py)                 *)
(*   - the Converter                (src/resting/script.py)                *)
(*   - the Test variants            (src/resting/tests.py)                 *)
(*   - Step.process / Script.process (src/resting/script.py)               *)
(*   - ClientSession._request       (src/resting/session.py)               *)
(*                                                                         *)
(* Text is modelled as a sequence of symbols.  A symbol is one character   *)
(* ("{", "}", ".", "-", a digit, ...) or one whole word ("environment",    *)
(* "history", "last", "a", ...) that is never looked into.                 *)
(***************************************************************************)
EXTENDS Integers, Sequences, FiniteSets, TLC

(***************************************************************************)
(* Bounds of the model.                                                    *)
(***************************************************************************)
MaxSteps == 2
MaxAdds == 3

(***************************************************************************)
(* Symbols, int() and str() of integers.                                   *)
(***************************************************************************)
Digits == <<"0", "1", "2", "3", "4", "5", "6", "7", "8", "9">>

IsDigit(c) == \E i \in 1..10 : Digits[i] = c

DigitVal(c) == (CHOOSE i \in 1..10 : Digits[i] = c) - 1

RECURSIVE DigitsToNat(_)
DigitsToNat(s) ==
  IF s = <<>> THEN 0
  ELSE 10 * DigitsToNat(SubSeq(s, 1, Len(s) - 1)) + DigitVal(s[Len(s)])

AllDigits(s) == Len(s) > 0 /\ \A i \in 1..Len(s) : IsDigit(s[i])

\* Python's int(text): an optional sign followed by digits; anything else
\* raises ValueError (ok = FALSE).
ParseInt(s) ==
  IF AllDigits(s) THEN [ok |-> TRUE, n |-> DigitsToNat(s)]
  ELSE IF Len(s) > 1 /\ s[1] = "-" /\ AllDigits(Tail(s))
       THEN [ok |-> TRUE, n |-> 0 - DigitsToNat(Tail(s))]
  ELSE IF Len(s) > 1 /\ s[1] = "+" /\ AllDigits(Tail(s))
       THEN [ok |-> TRUE, n |-> DigitsToNat(Tail(s))]
  ELSE [ok |-> FALSE, n |-> 0]

RECURSIVE NatToStr(_)
NatToStr(n) ==
  IF n < 10 THEN <<Digits[n + 1]>>
  ELSE NatToStr(n \div 10) \o <<Digits[(n % 10) + 1]>>

\* Python's str(int) / f"{int}".
IntToStr(n) == IF n < 0 THEN <<"-">> \o NatToStr(0 - n) ELSE NatToStr(n)

InSeq(x, s) == \E i \in 1..Len(s) : s[i] = x

(***************************************************************************)
(* Values of the script document (JSON / YAML data) and exceptions.        *)
(***************************************************************************)
StrV(s) == [t |-> "str", v |-> s]
IntV(n) == [t |-> "int", v |-> n]
DictV(entries) == [t |-> "dict", v |-> entries]
ListV(items) == [t |-> "list", v |-> items]
NoneV == [t |-> "none", v |-> 0]
\* What `map(convert, value)` returns: a lazy iterator over the items.
MapObjV(items) == [t |-> "mapobj", v |-> items]

Entry(k, v) == [k |-> k, v |-> v]

\* An operation either returns a value or raises an exception.
Ok(val) == [ok |-> TRUE, val |-> val]
\* kind: the exception class; arg: its args[0] or message, as text; path: the
\* path an InvalidPath names.
Raise(kind, arg) == [ok |-> FALSE, kind |-> kind, arg |-> arg, path |-> <<>>]

\* `v = r; F(v)` where the evaluation of r may raise: the exception of r,
\* else F of what r returned.
Bind(r, F(_)) == IF r.ok THEN F(r.val) ELSE r

\* Classes of src/resting/errors.py and the builtin hierarchy.
RestingErrors == {"InvalidPath", "EmptyEnvironment", "TestError", "FailedStepError"}
LookupErrors == {"KeyError", "IndexError"}
\* Kinds deriving from Exception; CancelledError derives from BaseException.
ExceptionKinds ==
  RestingErrors \cup LookupErrors \cup
  {"TypeError", "ValueError", "AssertionError", "ClientError"}

(***************************************************************************)
(* Python containers: list indexing and insertion-ordered dict.            *)
(***************************************************************************)
\* seq[n] of a Python sequence: negative n counts from the end.
PyIndex(s, n) ==
  IF n >= 0 /\ n < Len(s) THEN Ok(s[n + 1])
  ELSE IF n < 0 /\ 0 - n <= Len(s) THEN Ok(s[Len(s) + n + 1])
  ELSE Raise("IndexError", <<"index">>)

HasKey(entries, k) == \E i \in 1..Len(entries) : entries[i].k = k

DictGet(entries, k) == entries[CHOOSE i \in 1..Len(entries) : entries[i].k = k].v

\* d[k] = v: an existing key keeps its position, a new key goes last.
DictSet(entries, k, v) ==
  IF HasKey(entries, k)
  THEN [i \in 1..Len(entries) |->
          IF entries[i].k = k THEN Entry(k, v) ELSE entries[i]]
  ELSE Append(entries, Entry(k, v))

(***************************************************************************)
(* src/resting/utils.py                                                    *)
(***************************************************************************)
\* data[n] with an int n, by the type of data.  Keys of the mappings of a
\* script document are text, so an int is never a key of a dict.
SubscriptInt(data, n) ==
  CASE data.t = "dict" -> Raise("KeyError", IntToStr(n))
    [] data.t = "list" -> PyIndex(data.v, n)
    [] data.t = "str" ->
         Bind(PyIndex(data.v, n), LAMBDA c : Ok(StrV(<<c>>)))
    [] OTHER -> Raise("TypeError", <<"not subscriptable">>)

\* data[key] with a str key, by the type of data.
SubscriptStr(data, key) ==
  CASE data.t = "dict" ->
         IF HasKey(data.v, key) THEN Ok(DictGet(data.v, key))
         ELSE Raise("KeyError", key)
    [] data.t \in {"list", "str"} -> Raise("TypeError", <<"indices must be integers">>)
    [] OTHER -> Raise("TypeError", <<"not subscriptable">>)

\* get_item: `try: return data[int(key)]  except ValueError: return data[key]`.
\* Only the ValueError of int() falls back to the text key.
get_item(data, key) ==
  IF ParseInt(key).ok THEN SubscriptInt(data, ParseInt(key).n)
  ELSE SubscriptStr(data, key)

RECURSIVE get_dict_value(_, _)
get_dict_value(path, data) ==
  IF path = <<>> THEN Ok(data)
  ELSE Bind(get_item(data, Head(path)),
            LAMBDA item : get_dict_value(Tail(path), item))

(***************************************************************************)
(* src/resting/history.py                                                  *)
(* A History is its _labels (a sequence) and its _responses (a function    *)
(* from labels to responses).                                              *)
(***************************************************************************)
RESERVED_LABELS == {<<"last">>}

NoResponses == [l \in {} |-> 0]

Response(status, reason, headers, cookies, json) ==
  [status |-> status, reason |-> reason, headers |-> headers,
   cookies |-> cookies, json |-> json]

\* History.__getitem__ with an int key.
History_getitem_int(labels, responses, n) ==
  Bind(PyIndex(labels, n),
       LAMBDA l : IF l \in DOMAIN responses THEN Ok(responses[l])
                  ELSE Raise("KeyError", l))

\* History.last: self[-1].
History_last(labels, responses) == History_getitem_int(labels, responses, 0 - 1)

\* History.__getitem__ with a str key.
History_getitem_str(labels, responses, key) ==
  IF key = <<"last">> THEN History_last(labels, responses)
  ELSE IF key \in DOMAIN responses THEN Ok(responses[key])
  ELSE Raise("KeyError", key)

\* History.last_label: the newest label, None when there is none.
History_last_label(labels) ==
  IF Len(labels) > 0 THEN StrV(labels[Len(labels)]) ELSE NoneV

RECURSIVE NextCounter(_, _, _)
NextCounter(labels, prefix, counter) ==
  IF InSeq(prefix \o IntToStr(counter), labels)
  THEN NextCounter(labels, prefix, counter + 1)
  ELSE counter

\* History._label that tries the suffix 2 only.
History_label_fixed_suffix(labels, prefix) ==
  IF ~InSeq(prefix, labels) THEN prefix ELSE prefix \o IntToStr(1 + 1)

\* History._label.
History_label(labels, prefix) ==
  IF ~InSeq(prefix, labels) THEN prefix
  ELSE prefix \o IntToStr(NextCounter(labels, prefix, 1 + 1))

\* The try block of History.add: int(label) either raises ValueError itself
\* or is followed by `raise ValueError(...)`.
IntCheckRaises(label) ==
  IF ParseInt(label).ok THEN "ValueError" ELSE "ValueError"

\* `except ValueError: pass`: what leaves the try statement.
IntCheckPropagates(label) == IntCheckRaises(label) # "ValueError"

\* History_store that puts the new label first.
History_store_prepend(labels, responses, l, response, readOk) ==
  IF ~readOk
  THEN [labels |-> <<l>> \o labels, responses |-> responses,
        exc |-> Raise("ClientError", <<"read">>)]
  ELSE [labels |-> <<l>> \o labels,
        responses |-> [x \in DOMAIN responses \cup {l} |->
                         IF x = l THEN response ELSE responses[x]],
        exc |-> Ok(NoneV)]

\* The statements of History.add from `self._labels.append(label)` on;
\* readOk: `await response.read()` returns.
History_store(labels, responses, l, response, readOk) ==
  IF ~readOk
  THEN [labels |-> Append(labels, l), responses |-> responses,
        exc |-> Raise("ClientError", <<"read">>)]
  ELSE [labels |-> Append(labels, l),
        responses |-> [x \in DOMAIN responses \cup {l} |->
                         IF x = l THEN response ELSE responses[x]],
        exc |-> Ok(NoneV)]

\* History.add(label, response).  The result is the History afterwards and
\* the exception raised, if any.
History_add(labels, responses, label, response, readOk) ==
  IF IntCheckPropagates(label)
  THEN [labels |-> labels, responses |-> responses,
        exc |-> Raise("ValueError", <<"label mustn't contain integer">>)]
  ELSE IF label \in RESERVED_LABELS
  THEN [labels |-> labels, responses |-> responses,
        exc |-> Raise("ValueError", <<"reserved label">>)]
  ELSE History_store(labels, responses, History_label(labels, label), response,
                     readOk)

\* get_item(self, key) of History.get_value_by_path.
History_get_item(labels, responses, key) ==
  IF ParseInt(key).ok THEN History_getitem_int(labels, responses, ParseInt(key).n)
  ELSE History_getitem_str(labels, responses, key)

\* The match statement of History.get_value_by_path.  Matching of header
\* names is by the exact name here.  No case matching, the method returns
\* None.
ResponseField(response, rest) ==
  CASE Len(rest) = 2 /\ rest[1] = <<"headers">> ->
         IF HasKey(response.headers, rest[2])
         THEN Ok(StrV(DictGet(response.headers, rest[2])))
         ELSE Raise("KeyError", rest[2])
    [] Len(rest) = 2 /\ rest[1] = <<"cookies">> ->
         IF HasKey(response.cookies, rest[2])
         THEN Ok(StrV(DictGet(response.cookies, rest[2])))
         ELSE Raise("KeyError", rest[2])
    [] Len(rest) >= 1 /\ rest[1] = <<"json">> ->
         IF response.json.t = "invalid"
         THEN Raise("ClientError", <<"body is not JSON">>)
         ELSE get_dict_value(Tail(rest), response.json)
    [] rest = << <<"status">> >> -> Ok(IntV(response.status))
    [] rest = << <<"reason">> >> -> Ok(StrV(response.reason))
    [] OTHER -> Ok(NoneV)

\* History.get_value_by_path.  A ClientResponse is always truthy, so
\* `if not response` never raises.
History_get_value_by_path(labels, responses, path) ==
  IF path = <<>> THEN Raise("ValueError", <<"not enough values to unpack">>)
  ELSE Bind(History_get_item(labels, responses, Head(path)),
            LAMBDA response : ResponseField(response, Tail(path)))

(***************************************************************************)
(* src/resting/errors.py                                                   *)
(***************************************************************************)
\* `if item`: an empty text and the number 0 are falsy.
ItemGiven(item) == item # <<>> /\ item # <<"0">>

\* InvalidPath(path, item).
InvalidPath(path, item) ==
  [ok |-> FALSE, kind |-> "InvalidPath",
   arg |-> IF ItemGiven(item) THEN item ELSE <<>>, path |-> path]

(***************************************************************************)
(* src/resting/script.py: the Converter.                                   *)
(***************************************************************************)
\* The symbols the class [\w.-] of SUBSTITUTE does not match.
NonPathSymbols == {"{", "}", " ", "'", ":", ",", "[", "]", "/", "<map object>"}

IsPathSymbol(c) == c \notin NonPathSymbols

\* f"{{{path}}}": the text of the placeholder of a path.
Placeholder(path) == <<"{">> \o path \o <<"}">>

RECURSIVE RunEnd(_, _)
\* The first position >= i of s that holds no path symbol.
RunEnd(s, i) ==
  IF i > Len(s) \/ ~IsPathSymbol(s[i]) THEN i ELSE RunEnd(s, i + 1)

RECURSIVE FindAllFrom(_, _)
FindAllFrom(s, i) ==
  IF i > Len(s) THEN <<>>
  ELSE IF s[i] = "{"
  THEN LET j == RunEnd(s, i + 1) IN
       IF j > i + 1 /\ j <= Len(s) /\ s[j] = "}"
       THEN <<SubSeq(s, i + 1, j - 1)>> \o FindAllFrom(s, j + 1)
       ELSE FindAllFrom(s, i + 1)
  ELSE FindAllFrom(s, i + 1)

\* SUBSTITUTE.findall(value): the paths of the placeholders, left to right.
FindAll(s) == FindAllFrom(s, 1)

RECURSIVE Split(_)
\* path.split(".")
Split(p) ==
  IF \A i \in 1..Len(p) : p[i] # "." THEN <<p>>
  ELSE LET i == CHOOSE k \in 1..Len(p) :
                  p[k] = "." /\ \A m \in 1..(k - 1) : p[m] # "."
       IN <<SubSeq(p, 1, i - 1)>> \o Split(SubSeq(p, i + 1, Len(p)))

RECURSIVE Replace(_, _, _)
\* s.replace(sub, rep) for a non-empty sub.
Replace(s, sub, rep) ==
  IF Len(s) < Len(sub) THEN s
  ELSE IF SubSeq(s, 1, Len(sub)) = sub
  THEN rep \o Replace(SubSeq(s, Len(sub) + 1, Len(s)), sub, rep)
  ELSE <<Head(s)>> \o Replace(Tail(s), sub, rep)

RECURSIVE PyRepr(_)
RECURSIVE ReprItems(_)
RECURSIVE ReprEntries(_)
\* repr(value)
PyRepr(value) ==
  CASE value.t = "str" -> <<"'">> \o value.v \o <<"'">>
    [] value.t = "int" -> IntToStr(value.v)
    [] value.t = "none" -> <<"None">>
    [] value.t = "list" -> <<"[">> \o ReprItems(value.v) \o <<"]">>
    [] value.t = "dict" -> <<"{">> \o ReprEntries(value.v) \o <<"}">>
    [] OTHER -> <<"<map object>">>

ReprItems(items) ==
  IF items = <<>> THEN <<>>
  ELSE IF Len(items) = 1 THEN PyRepr(items[1])
  ELSE PyRepr(items[1]) \o <<",", " ">> \o ReprItems(Tail(items))

ReprEntries(entries) ==
  IF entries = <<>> THEN <<>>
  ELSE PyRepr(StrV(entries[1].k)) \o <<":", " ">> \o PyRepr(entries[1].v)
       \o (IF Len(entries) = 1 THEN <<>>
           ELSE <<",", " ">> \o ReprEntries(Tail(entries)))

\* str(value)
PyStr(value) == IF value.t = "str" THEN value.v ELSE PyRepr(value)

\* `except LookupError as exception: raise InvalidPath(path,
\* exception.args[0])` around get_dict_value.
ExceptLookupError(path, r) ==
  IF r.ok THEN r
  ELSE IF r.kind \in LookupErrors THEN InvalidPath(path, r.arg)
  ELSE r

\* The match statement of substitute on parts = path.split(".").
SubstituteParts(path, parts, environment, labels, responses) ==
  IF Head(parts) = <<"environment">>
  THEN ExceptLookupError(path, get_dict_value(Tail(parts), environment))
  ELSE IF Head(parts) = <<"history">>
  THEN History_get_value_by_path(labels, responses, Tail(parts))
  ELSE InvalidPath(path, <<>>)

\* substitute(path) of create_converter.
substitute(path, environment, labels, responses) ==
  SubstituteParts(path, Split(path), environment, labels, responses)

RECURSIVE Substitutes(_, _, _, _)
\* The first loop of convert on a string: the list of (sub, rep) pairs, or
\* the first exception a path raises.
Substitutes(paths, environment, labels, responses) ==
  IF paths = <<>> THEN Ok(<<>>)
  ELSE Bind(substitute(Head(paths), environment, labels, responses),
         LAMBDA rep :
           Bind(Substitutes(Tail(paths), environment, labels, responses),
             LAMBDA more :
               Ok(<<[sub |-> Placeholder(Head(paths)), rep |-> rep]>> \o more)))

RECURSIVE ReplaceAll(_, _)
\* The second loop of convert on a string: each replacement is applied to
\* the text as it stands after the replacements before it.
ReplaceAll(s, substitutes) ==
  IF substitutes = <<>> THEN s
  ELSE ReplaceAll(Replace(s, Head(substitutes).sub, PyStr(Head(substitutes).rep)),
                  Tail(substitutes))

RECURSIVE convert(_, _, _, _)
RECURSIVE ConvertEntries(_, _, _, _, _)
\* convert(value) of create_converter, with the Environment and the History
\* it closes over.
convert(value, environment, labels, responses) ==
  CASE value.t = "dict" ->
         ConvertEntries(value.v, <<>>, environment, labels, responses)
    [] value.t = "list" -> Ok(MapObjV(value.v))
    [] value.t = "str" ->
         Bind(Substitutes(FindAll(value.v), environment, labels, responses),
              LAMBDA subs : Ok(StrV(ReplaceAll(value.v, subs))))
    [] OTHER -> Ok(value)

RECURSIVE ConvertEntries_reversed(_, _, _, _, _)
\* ConvertEntries that puts each converted entry before the ones made so far.
ConvertEntries_reversed(entries, acc, environment, labels, responses) ==
  IF entries = <<>> THEN Ok(DictV(acc))
  ELSE Bind(convert(StrV(Head(entries).k), environment, labels, responses),
         LAMBDA k :
           Bind(convert(Head(entries).v, environment, labels, responses),
             LAMBDA v :
               ConvertEntries_reversed(Tail(entries), <<Entry(k.v, v)>> \o acc,
                                       environment, labels, responses)))

RECURSIVE ConvertEntries_raw_keys(_, _, _, _, _)
\* ConvertEntries that leaves the keys as they are written.
ConvertEntries_raw_keys(entries, acc, environment, labels, responses) ==
  IF entries = <<>> THEN Ok(DictV(acc))
  ELSE Bind(convert(Head(entries).v, environment, labels, responses),
         LAMBDA v :
           ConvertEntries_raw_keys(Tail(entries), DictSet(acc, Head(entries).k, v),
                                   environment, labels, responses))

\* The dict comprehension of convert: key, then value, entry by entry.
ConvertEntries(entries, acc, environment, labels, responses) ==
  IF entries = <<>> THEN Ok(DictV(acc))
  ELSE Bind(convert(StrV(Head(entries).k), environment, labels, responses),
         LAMBDA k :
           Bind(convert(Head(entries).v, environment, labels, responses),
             LAMBDA v :
               ConvertEntries(Tail(entries), DictSet(acc, k.v, v),
                              environment, labels, responses)))

(***************************************************************************)
(* src/resting/tests.py: the Test variants.                                *)
(* A test is [tag, arg]; tag is the populated field (BaseTest.name).       *)
(* run returns the Environment afterwards, the assignments it made, in     *)
(* order, and the exception it raised, if any.                             *)
(***************************************************************************)
Test(tag, arg) == [tag |-> tag, arg |-> arg]

TestResult(environment, assignments, exc) ==
  [environment |-> environment, assignments |-> assignments, exc |-> exc]

\* int(value)
PyInt(value) ==
  CASE value.t = "int" -> Ok(value.v)
    [] value.t = "str" ->
         IF ParseInt(value.v).ok THEN Ok(ParseInt(value.v).n)
         ELSE Raise("ValueError", <<"invalid literal for int()">>)
    [] OTHER -> Raise("TypeError", <<"int() argument">>)

\* Text float() accepts: an int text, or digits around one "." .
IsFloatText(s) ==
  \/ ParseInt(s).ok
  \/ \E i \in 1..Len(s) :
       /\ s[i] = "."
       /\ Len(s) > 1
       /\ \A m \in (1..Len(s)) \ {i} : IsDigit(s[m])

\* float(value): only whether it raises matters.
PyFloat(value) ==
  CASE value.t = "int" -> Ok(value)
    [] value.t = "str" ->
         IF IsFloatText(value.v) THEN Ok(value)
         ELSE Raise("ValueError", <<"could not convert string to float">>)
    [] OTHER -> Raise("TypeError", <<"float() argument">>)

RECURSIVE PyEq(_, _)
\* a == b of Python.  Two map objects are equal only when they are the same
\* object, and every convert of a list makes a new one.
PyEq(a, b) ==
  IF a.t # b.t THEN FALSE
  ELSE CASE a.t = "mapobj" -> FALSE
         [] a.t = "list" ->
              /\ Len(a.v) = Len(b.v)
              /\ \A i \in 1..Len(a.v) : PyEq(a.v[i], b.v[i])
         [] a.t = "dict" ->
              /\ Len(a.v) = Len(b.v)
              /\ \A i \in 1..Len(a.v) :
                   /\ HasKey(b.v, a.v[i].k)
                   /\ PyEq(a.v[i].v, DictGet(b.v, a.v[i].k))
         [] OTHER -> a.v = b.v

\* `v = r; F(v)` inside a run that has left environment and made the
\* assignments done: r raising ends the run.
Try(r, environment, done, F(_)) ==
  IF r.ok THEN F(r.val) ELSE TestResult(environment, done, r)

\* Sleep.run
Sleep_run(test, environment, labels, responses) ==
  Try(convert(test.arg, environment, labels, responses), environment, <<>>,
    LAMBDA c :
      Try(PyFloat(c), environment, <<>>,
        LAMBDA delay : TestResult(environment, <<>>, Ok(NoneV))))

\* AssertStatus that accepts every status from the expected one upwards.
AssertStatus_at_least(status, expected) ==
  IF status >= expected THEN Ok(NoneV)
  ELSE Raise("AssertionError",
             <<"response", " ", "status", " ">> \o IntToStr(status)
             \o <<" ", "but", " ">> \o IntToStr(expected) \o <<" ", "expected">>)

\* `assert status == expected, f"response status {status} but {expected}
\* expected"` of Status.run.
AssertStatus(status, expected) ==
  IF status = expected THEN Ok(NoneV)
  ELSE Raise("AssertionError",
             <<"response", " ", "status", " ">> \o IntToStr(status)
             \o <<" ", "but", " ">> \o IntToStr(expected) \o <<" ", "expected">>)

\* Status.run.  `assert session.history.last` evaluates History.last, which
\* is a response (truthy) or raises.
Status_run(test, environment, labels, responses) ==
  Try(History_last(labels, responses), environment, <<>>,
    LAMBDA last :
      Try(convert(test.arg, environment, labels, responses), environment, <<>>,
        LAMBDA c :
          Try(PyInt(c), environment, <<>>,
            LAMBDA expected :
              TestResult(environment, <<>>, AssertStatus(last.status, expected)))))

\* `assert a == b, f"items are not equal:\n{a}\n{b}"` of Equal.run.
AssertEqual(a, b) ==
  IF PyEq(a, b) THEN Ok(NoneV)
  ELSE Raise("AssertionError", <<"items are not equal">> \o PyStr(a) \o PyStr(b))

\* Equal_run that converts the first element before it looks at the length.
Equal_run_convert_first(test, environment, labels, responses) ==
  IF Len(test.arg.v) = 0
  THEN TestResult(environment, <<>>,
         Raise("AssertionError", <<"only two items can be compared">>))
  ELSE
    Try(convert(test.arg.v[1], environment, labels, responses), environment, <<>>,
      LAMBDA a :
        IF Len(test.arg.v) # 2
        THEN TestResult(environment, <<>>,
               Raise("AssertionError", <<"only two items can be compared">>))
        ELSE
          Try(convert(test.arg.v[2], environment, labels, responses),
              environment, <<>>,
            LAMBDA b : TestResult(environment, <<>>, AssertEqual(a, b))))

\* Equal.run
Equal_run(test, environment, labels, responses) ==
  IF Len(test.arg.v) # 2
  THEN TestResult(environment, <<>>,
         Raise("AssertionError", <<"only two items can be compared">>))
  ELSE
    Try(convert(test.arg.v[1], environment, labels, responses), environment, <<>>,
      LAMBDA a :
        Try(convert(test.arg.v[2], environment, labels, responses), environment, <<>>,
          LAMBDA b : TestResult(environment, <<>>, AssertEqual(a, b))))

\* SetItem on a copy of the Environment: the shared store is left as it is.
SetItem_copy(environment, key, value) == environment

\* environment[key] = value of UpdateEnvironment.run.
SetItem(environment, key, value) == DictV(DictSet(environment.v, key, value))

RECURSIVE UpdateEntries(_, _, _, _, _)
\* The loop of UpdateEnvironment.run.  In `environment[await converter(key)]
\* = await converter(value)` the right-hand side is evaluated first.
UpdateEntries(entries, environment, done, labels, responses) ==
  IF entries = <<>> THEN TestResult(environment, done, Ok(NoneV))
  ELSE
    Try(convert(Head(entries).v, environment, labels, responses), environment, done,
      LAMBDA v :
        Try(convert(StrV(Head(entries).k), environment, labels, responses),
            environment, done,
          LAMBDA k :
            UpdateEntries(Tail(entries), SetItem(environment, k.v, v),
                          Append(done, Entry(k.v, v)), labels, responses)))

\* UpdateEnvironment.run
UpdateEnvironment_run(test, environment, labels, responses) ==
  UpdateEntries(test.arg.v, environment, <<>>, labels, responses)

\* Print.run
Print_run(test, environment, labels, responses) ==
  Try(convert(test.arg, environment, labels, responses), environment, <<>>,
    LAMBDA c : TestResult(environment, <<>>, Ok(NoneV)))

\* test.run(session, converter, environment), by the variant.
Test_run(test, environment, labels, responses) ==
  CASE test.tag = "sleep" -> Sleep_run(test, environment, labels, responses)
    [] test.tag = "status" -> Status_run(test, environment, labels, responses)
    [] test.tag = "eq" -> Equal_run(test, environment, labels, responses)
    [] test.tag = "update_environment" ->
         UpdateEnvironment_run(test, environment, labels, responses)
    [] OTHER -> Print_run(test, environment, labels, responses)

(***************************************************************************)
(* src/resting/script.py: Step and Script.                                 *)
(***************************************************************************)
Header(name, value) == [name |-> name, value |-> value]

Step(label, method, url, headers, json, tests) ==
  [label |-> label, method |-> method, url |-> url, headers |-> headers,
   json |-> json, tests |-> tests]

Script(environment, steps) == [environment |-> environment, steps |-> steps]

RECURSIVE get_headers(_, _, _, _, _)
\* Step.get_headers: Header.get converts the name, then the value.
get_headers(headers, acc, environment, labels, responses) ==
  IF headers = <<>> THEN Ok(acc)
  ELSE Bind(convert(StrV(Head(headers).name), environment, labels, responses),
         LAMBDA n :
           Bind(convert(StrV(Head(headers).value), environment, labels, responses),
             LAMBDA v :
               get_headers(Tail(headers), Append(acc, Entry(n.v, v.v)),
                           environment, labels, responses)))

\* Step_request that sends no headers when they do not resolve.
Step_request_skip_headers(step, environment, labels, responses) ==
  Bind(convert(StrV(step.method), environment, labels, responses),
    LAMBDA m :
      Bind(convert(StrV(step.url), environment, labels, responses),
        LAMBDA u :
          Bind(convert(step.json, environment, labels, responses),
            LAMBDA j :
              Ok([method |-> m.v, url |-> u.v, label |-> step.label,
                  headers |-> <<>>, json |-> j]))))

\* The arguments of session.request in Step.process, evaluated in the order
\* method, url, label, headers, json: the request, or the first exception.
Step_request(step, environment, labels, responses) ==
  Bind(convert(StrV(step.method), environment, labels, responses),
    LAMBDA m :
      Bind(convert(StrV(step.url), environment, labels, responses),
        LAMBDA u :
          Bind(get_headers(step.headers, <<>>, environment, labels, responses),
            LAMBDA h :
              Bind(convert(step.json, environment, labels, responses),
                LAMBDA j :
                  Ok([method |-> m.v, url |-> u.v, label |-> step.label,
                      headers |-> h, json |-> j])))))

\* Step_loop that goes on to the next test after a failed one.
Step_loop_swallow(testno, ntests, exc) ==
  IF testno < ntests THEN [next |-> "test", testno |-> testno + 1]
  ELSE IF exc.ok THEN [next |-> "return", testno |-> testno]
  ELSE [next |-> "raise", testno |-> testno]

\* The loop over the tests in Step.process after test number testno of
\* ntests ended with exc: an exception leaves the loop and the step.
Step_loop(testno, ntests, exc) ==
  IF ~exc.ok THEN [next |-> "raise", testno |-> testno]
  ELSE IF testno < ntests THEN [next |-> "test", testno |-> testno + 1]
  ELSE [next |-> "return", testno |-> testno]

\* FailedStepError(step, failed_step, total) raised `from cause`.
FailedStepError(step, failed_step, total, cause) ==
  [kind |-> "FailedStepError", label |-> step.label, failed_step |-> failed_step,
   total |-> total, cause |-> cause]

\* An exception that leaves Script.process as it is.
Unwrapped(exc) ==
  [kind |-> exc.kind, label |-> <<>>, failed_step |-> 0, total |-> 0, cause |-> exc]

NoFailure ==
  [kind |-> "none", label |-> <<>>, failed_step |-> 0, total |-> 0,
   cause |-> Ok(NoneV)]

\* Script_except without the `except Exception` clause.
Script_except_resting_only(step, number, total, exc) ==
  IF exc.kind \in RestingErrors THEN FailedStepError(step, number, total, exc)
  ELSE Unwrapped(exc)

\* Script_except with a clause that catches every BaseException.
Script_except_base(step, number, total, exc) ==
  FailedStepError(step, number, total, exc)

\* The except clauses of Script.process: what is raised for an exception
\* of step.process.
Script_except(step, number, total, exc) ==
  IF exc.kind \in RestingErrors THEN FailedStepError(step, number, total, exc)
  ELSE IF exc.kind \in ExceptionKinds THEN FailedStepError(step, number, total, exc)
  ELSE Unwrapped(exc)

\* Script_loop that returns after the first step that succeeded.
Script_loop_first_only(number, total, exc) ==
  IF ~exc.ok THEN [pc |-> "StepFailed", number |-> number]
  ELSE [pc |-> "Completed", number |-> number]

\* Script_loop with best-effort continuation: the next step is started also
\* after a failed one.
Script_loop_continue(number, total, exc) ==
  IF number < total THEN [pc |-> "Resolve", number |-> number + 1]
  ELSE IF exc.ok THEN [pc |-> "Completed", number |-> number]
  ELSE [pc |-> "StepFailed", number |-> number]

\* The loop over the steps in Script.process after step number of total
\* ended with exc: an exception ends the run.
Script_loop(number, total, exc) ==
  IF ~exc.ok THEN [pc |-> "StepFailed", number |-> number]
  ELSE IF number < total THEN [pc |-> "Resolve", number |-> number + 1]
  ELSE [pc |-> "Completed", number |-> number]

(***************************************************************************)
(* src/resting/cli.py                                                      *)
(***************************************************************************)
\* run: what the call of script.process gives, failure being the exception
\* that left it.  Only Exception is caught.
cli_run(failure) ==
  IF failure.kind = "none" THEN "Exit.SUCCESS"
  ELSE IF failure.kind \in ExceptionKinds THEN "Exit.SCRIPT_FAILED"
  ELSE failure.kind

(***************************************************************************)
(* src/resting/session.py                                                  *)
(***************************************************************************)
\* ClientSession._request: its first statement calls History.add with the
\* label alone; add takes (label, response), so the call raises TypeError
\* before the exchange is issued and before History is touched.
ClientSession_request(labels, responses, label) ==
  [labels |-> labels, responses |-> responses, exchanged |-> FALSE,
   exc |-> Raise("TypeError", <<"add() missing 1 required positional argument">>)]

\* A collaborator that keeps the contract of the HTTP collaborator: it
\* performs the exchange and registers the outcome with
\* History.add(label, outcome).  outcome.response is the response received,
\* outcome.sent whether the exchange gave one, outcome.read whether the body
\* could be read.
Collaborator_request(labels, responses, label, outcome) ==
  IF ~outcome.sent
  THEN [labels |-> labels, responses |-> responses, exchanged |-> TRUE,
        exc |-> Raise("ClientError", <<"connection">>)]
  ELSE [exchanged |-> TRUE] @@
       History_add(labels, responses, label, outcome.response, outcome.read)

(***************************************************************************)
(* State.                                                                  *)
(***************************************************************************)
VARIABLES
  script,       \* the Script being run: seed environment and steps
  session,      \* which session object Script.process was given
  environment,  \* Script.environment, the store shared by the run
  h_labels,     \* History._labels
  h_responses,  \* History._responses
  pc,           \* where the run is
  number,       \* the 1-based number of the step in progress
  testno,       \* the 1-based number of the test to run next
  request,      \* the resolved arguments of the pending session.request
  failure,      \* the exception that left Script.process
  log,          \* history variable: what was done, in order
  assigned,     \* history variable: the Environment assignments, in order
  atfail,       \* history variable: stores when the first step failed
  h_log,        \* history variable: the add calls that appended a label
  h_exc,        \* the outcome of the latest History.add
  cv_in,        \* the value given to convert
  cv_out,       \* what convert returned or raised
  cv_again,     \* what convert of that result returned or raised
  t_in,         \* the test given to a single call of run
  t_out         \* what that call left: Environment, assignments, exception

runVars == <<script, session, pc, number, testno, request, failure, log,
             assigned, atfail>>
histVars == <<h_labels, h_responses, h_log, h_exc>>
convVars == <<cv_in, cv_out, cv_again>>
testVars == <<t_in, t_out>>
vars == <<script, session, environment, h_labels, h_responses, pc, number,
          testno, request, failure, log, assigned, atfail, h_log, h_exc,
          cv_in, cv_out, cv_again, t_in, t_out>>

\* ev: what was done; step, idx: the numbers of the step and of the test; tag:
\* the tag of the test; kind: the class of the exception it ended with.
Event(ev, step, idx, tag, kind) ==
  [ev |-> ev, step |-> step, idx |-> idx, tag |-> tag, kind |-> kind]

NoRequest == [method |-> <<>>, url |-> <<>>, label |-> <<>>, headers |-> <<>>,
              json |-> NoneV]

NoTest == Test("print", NoneV)

NoResult == TestResult(NoneV, <<>>, Ok(NoneV))

NotFailed == [step |-> 0, environment |-> NoneV, labels |-> <<>>,
              responses |-> NoResponses, exc |-> Ok(NoneV)]

(***************************************************************************)
(* The inputs of the model: texts, responses, steps, scripts.              *)
(***************************************************************************)
T_x == Placeholder(<<"environment", ".", "x">>)
T_nope == Placeholder(<<"environment", ".", "nope">>)
T_a_b == Placeholder(<<"environment", ".", "a", ".", "b">>)
T_last_status == Placeholder(<<"history", ".", "last", ".", "status">>)
T_200 == <<"2", "0", "0">>

R200 == Response(200, <<"OK">>, <<Entry(<<"h">>, <<"v">>)>>, <<>>,
                 DictV(<<Entry(<<"id">>, IntV(7))>>))
R404 == Response(404, <<"Not", " ", "Found">>, <<>>, <<>>, [t |-> "invalid", v |-> 0])

ResponsePool == {R200, R404}

Outcomes ==
  [response : ResponsePool, sent : {TRUE}, read : BOOLEAN]
  \cup [response : {R404}, sent : {FALSE}, read : {FALSE}]

TestsStatus ==
  <<Test("status", StrV(T_200)),
    Test("update_environment", DictV(<<Entry(<<"x">>, StrV(T_last_status))>>))>>
TestsUpdate ==
  <<Test("update_environment", DictV(<<Entry(<<"x">>, StrV(T_last_status))>>)),
    Test("status", StrV(T_x)),
    Test("update_environment", DictV(<<Entry(<<"x">>, StrV(T_a_b))>>)),
    Test("print", StrV(<<"p", " ">> \o T_x))>>
TestsMismatch ==
  <<Test("status", IntV(404)),
    Test("update_environment", DictV(<<Entry(<<"y">>, IntV(1))>>))>>
TestsPartial ==
  <<Test("update_environment",
         DictV(<<Entry(<<"x">>, IntV(1)),
                 Entry(<<"5">>, ListV(<<IntV(1), StrV(T_x)>>)),
                 Entry(<<"z">>, StrV(T_nope))>>)),
    Test("print", StrV(<<"p">>))>>
TestsEqual ==
  <<Test("eq", ListV(<<StrV(T_x), StrV(T_200)>>)),
    Test("sleep", StrV(<<"0", ".", "1">>)),
    Test("eq", ListV(<<IntV(1), IntV(1), IntV(1)>>))>>

StepPool ==
  { Step(<<"r">>, <<"GET">>, <<"u">>, <<>>, NoneV, TestsStatus),
    Step(<<"r">>, <<"GET">>, <<"u">>, <<>>, NoneV, TestsUpdate),
    Step(<<"r">>, <<"GET">>, <<"u">>, <<>>, NoneV, TestsMismatch),
    Step(<<"r">>, <<"POST">>, <<"u">>, <<>>, NoneV, TestsPartial),
    Step(<<"q">>, <<"POST">>, <<"u", "/">> \o T_x, <<Header(<<"h">>, T_x)>>,
         DictV(<<Entry(<<"k">>, StrV(T_x))>>), TestsEqual),
    Step(<<"last">>, <<"GET">>, <<"u", "/">> \o T_last_status, <<>>, NoneV, <<>>),
    Step(<<"h">>, <<"GET">>, <<"u">>, <<Header(<<"h">>, T_nope)>>, NoneV,
         <<Test("print", StrV(<<"p">>))>>),
    Step(<<"j">>, <<"POST">>, <<"u">>, <<>>,
         DictV(<<Entry(<<"k">>, StrV(T_nope))>>), <<>>) }

\* The sequences over S of length at most n.
Seqs(S, n) == UNION {[1..m -> S] : m \in 0..n}

EnvironmentSeeds ==
  { DictV(<<>>), DictV(<<Entry(<<"a">>, DictV(<<Entry(<<"b">>, IntV(7))>>))>>) }

Scripts == {Script(e, q) : e \in EnvironmentSeeds, q \in Seqs(StepPool, MaxSteps)}

SessionKinds == {"ClientSession", "Collaborator"}

(***************************************************************************)
(* One run of Script.process.                                              *)
(***************************************************************************)
Init ==
  /\ script \in Scripts
  /\ session \in SessionKinds
  /\ environment = script.environment
  /\ h_labels = <<>>
  /\ h_responses = NoResponses
  /\ pc = "NotStarted"
  /\ number = 0
  /\ testno = 0
  /\ request = NoRequest
  /\ failure = NoFailure
  /\ log = <<>>
  /\ assigned = <<>>
  /\ atfail = NotFailed
  /\ h_log = <<>>
  /\ h_exc = Ok(NoneV)
  /\ cv_in = NoneV
  /\ cv_out = Ok(NoneV)
  /\ cv_again = Ok(NoneV)
  /\ t_in = NoTest
  /\ t_out = NoResult

CurrentStep == script.steps[number]

\* Script.process is called: the converter is built, the loop is entered.
ScriptStart ==
  /\ pc = "NotStarted"
  /\ IF Len(script.steps) = 0
     THEN pc' = "Completed" /\ number' = 0
     ELSE pc' = "Resolve" /\ number' = 1
  /\ UNCHANGED <<script, session, environment, testno, request, failure, log,
                 assigned, atfail>>
  /\ UNCHANGED histVars
  /\ UNCHANGED convVars
  /\ UNCHANGED testVars

\* step.process ended with exc (Ok: it returned), leaving the stores env,
\* labels and responses: the try statement and the loop of Script.process.
StepEnds(exc, env, labels, responses) ==
  LET nxt == Script_loop(number, Len(script.steps), exc) IN
  /\ pc' = nxt.pc
  /\ number' = nxt.number
  /\ testno' = 0
  /\ request' = NoRequest
  /\ failure' = IF exc.ok THEN failure
                ELSE Script_except(CurrentStep, number, Len(script.steps), exc)
  /\ atfail' = IF exc.ok \/ atfail.step # 0 THEN atfail
               ELSE [step |-> number, environment |-> env,
                     labels |-> labels, responses |-> responses, exc |-> exc]

\* Step.process up to the call of session.request, r being the arguments
\* or the exception their evaluation raised.
Resolved(r) ==
  IF r.ok
  THEN /\ pc' = "Exchange"
       /\ request' = r.val
       /\ log' = log \o <<Event("step", number, 0, "", ""),
                          Event("request", number, 0, "", "")>>
       /\ UNCHANGED <<number, testno, failure, atfail>>
  ELSE /\ log' = Append(log, Event("step", number, 0, "", r.kind))
       /\ StepEnds(r, environment, h_labels, h_responses)

StepResolve ==
  /\ pc = "Resolve"
  /\ Resolved(Step_request(CurrentStep, environment, h_labels, h_responses))
  /\ UNCHANGED <<script, session, environment, assigned>>
  /\ UNCHANGED histVars
  /\ UNCHANGED convVars
  /\ UNCHANGED testVars

\* The request `done` (the History afterwards, whether an exchange went out,
\* the exception): `async with request` is entered, or the step fails.
Exchanged(done, outcome) ==
  /\ h_labels' = done.labels
  /\ h_responses' = done.responses
  /\ h_exc' = done.exc
  /\ h_log' = IF Len(done.labels) > Len(h_labels)
              THEN Append(h_log, [p |-> request.label,
                                  response |-> outcome.response,
                                  ok |-> done.exc.ok])
              ELSE h_log
  /\ log' = IF done.exchanged
            THEN Append(log, Event("exchange", number, 0, "", ""))
            ELSE log
  /\ IF done.exc.ok /\ Len(CurrentStep.tests) > 0
     THEN /\ pc' = "Tests"
          /\ testno' = 1
          /\ UNCHANGED <<number, request, failure, atfail>>
     ELSE StepEnds(done.exc, environment, done.labels, done.responses)
  /\ UNCHANGED <<script, session, environment, assigned>>
  /\ UNCHANGED convVars
  /\ UNCHANGED testVars

\* `async with request` with the ClientSession of src/resting/session.py.
StepExchangeClientSession ==
  /\ pc = "Exchange"
  /\ session = "ClientSession"
  /\ Exchanged(ClientSession_request(h_labels, h_responses, request.label),
               [response |-> R404, sent |-> FALSE, read |-> FALSE])

\* `async with request` with a collaborator that keeps the contract.
StepExchangeCollaborator ==
  /\ pc = "Exchange"
  /\ session = "Collaborator"
  /\ \E outcome \in Outcomes :
       Exchanged(Collaborator_request(h_labels, h_responses, request.label,
                                      outcome), outcome)

\* Test number testno of the step was run with the result res: the loop
\* over the tests in Step.process.
Tested(test, res) ==
  /\ environment' = res.environment
  /\ assigned' = assigned \o res.assignments
  /\ log' = Append(log, IF res.exc.ok
                         THEN Event("test", number, testno, test.tag, "")
                         ELSE Event("testfail", number, testno, test.tag,
                                    res.exc.kind))
  /\ IF Step_loop(testno, Len(CurrentStep.tests), res.exc).next = "test"
     THEN /\ testno' = Step_loop(testno, Len(CurrentStep.tests), res.exc).testno
          /\ UNCHANGED <<pc, number, request, failure, atfail>>
     ELSE StepEnds(res.exc, res.environment, h_labels, h_responses)

\* One pass of the loop over the tests in Step.process.
StepTest ==
  /\ pc = "Tests"
  /\ Tested(CurrentStep.tests[testno],
            Test_run(CurrentStep.tests[testno], environment, h_labels, h_responses))
  /\ UNCHANGED <<script, session>>
  /\ UNCHANGED histVars
  /\ UNCHANGED convVars
  /\ UNCHANGED testVars

Next ==
  \/ ScriptStart
  \/ StepResolve
  \/ StepExchangeClientSession
  \/ StepExchangeCollaborator
  \/ StepTest

Spec == Init /\ [][Next]_vars

(***************************************************************************)
(* A run whose surrounding task may be cancelled.  asyncio raises          *)
(* CancelledError, a BaseException, at the await the run is suspended in.  *)
(***************************************************************************)
CancelledError == Raise("CancelledError", <<>>)

\* CancelledError raised in step.process goes through the try statement of
\* Script.process and out of the loop over the steps.
StepCancelled(point) ==
  /\ failure' = Script_except(CurrentStep, number, Len(script.steps), CancelledError)
  /\ pc' = IF failure'.kind = "FailedStepError"
           THEN Script_loop(number, Len(script.steps), CancelledError).pc
           ELSE "Cancelled"
  /\ log' = Append(log, Event("cancel", number, testno, point, "CancelledError"))
  /\ UNCHANGED <<script, session, environment, number, testno, request,
                 assigned, atfail>>
  /\ UNCHANGED convVars
  /\ UNCHANGED testVars

\* Cancelled while the exchange is awaited: nothing was registered.
CancelExchange ==
  /\ pc = "Exchange"
  /\ session = "Collaborator"
  /\ StepCancelled("exchange")
  /\ UNCHANGED histVars

\* History.add up to `await response.read()`, the await not returning.
History_add_suspended(labels, responses, label, response) ==
  History_add(labels, responses, label, response, FALSE)

\* Cancelled while History.add awaits response.read(): the label is
\* appended, the response is not stored.
CancelRead ==
  /\ pc = "Exchange"
  /\ session = "Collaborator"
  /\ \E response \in ResponsePool :
       /\ Len(History_add_suspended(h_labels, h_responses, request.label,
                                    response).labels) > Len(h_labels)
       /\ h_labels' = History_add_suspended(h_labels, h_responses, request.label,
                                            response).labels
       /\ h_responses' = h_responses
       /\ h_exc' = CancelledError
       /\ h_log' = Append(h_log, [p |-> request.label, response |-> response,
                                  ok |-> FALSE])
  /\ StepCancelled("read")

\* Cancelled while Sleep.run awaits asyncio.sleep(delay).
CancelSleep ==
  /\ pc = "Tests"
  /\ CurrentStep.tests[testno].tag = "sleep"
  /\ Sleep_run(CurrentStep.tests[testno], environment, h_labels, h_responses).exc.ok
  /\ StepCancelled("sleep")
  /\ UNCHANGED histVars

NextCancel ==
  \/ ScriptStart
  \/ StepResolve
  \/ StepExchangeClientSession
  \/ StepExchangeCollaborator
  \/ StepTest
  \/ CancelExchange
  \/ CancelRead
  \/ CancelSleep

SpecCancel == Init /\ [][NextCancel]_vars

(***************************************************************************)
(* Sequences of History.add calls.                                         *)
(***************************************************************************)
LabelPool == {<<"r">>, <<"r", "2">>, <<"5">>, <<"0">>, <<"last">>}

InitHistory ==
  /\ script = Script(DictV(<<>>), <<>>)
  /\ session = "Collaborator"
  /\ environment = DictV(<<>>)
  /\ h_labels = <<>>
  /\ h_responses = NoResponses
  /\ pc = "History"
  /\ number = 0
  /\ testno = 0
  /\ request = NoRequest
  /\ failure = NoFailure
  /\ log = <<>>
  /\ assigned = <<>>
  /\ atfail = NotFailed
  /\ h_log = <<>>
  /\ h_exc = Ok(NoneV)
  /\ cv_in = NoneV
  /\ cv_out = Ok(NoneV)
  /\ cv_again = Ok(NoneV)
  /\ t_in = NoTest
  /\ t_out = NoResult

\* History.add(label, response) was called and left `added`.
Added(label, response, added) ==
  /\ h_labels' = added.labels
  /\ h_responses' = added.responses
  /\ h_exc' = added.exc
  /\ h_log' = IF Len(added.labels) > Len(h_labels)
              THEN Append(h_log, [p |-> label, response |-> response,
                                  ok |-> added.exc.ok])
              ELSE h_log

HistoryAdd ==
  /\ pc = "History"
  /\ Len(h_labels) < MaxAdds
  /\ \E label \in LabelPool, response \in ResponsePool, readOk \in BOOLEAN :
       Added(label, response,
             History_add(h_labels, h_responses, label, response, readOk))
  /\ UNCHANGED runVars
  /\ UNCHANGED environment
  /\ UNCHANGED convVars
  /\ UNCHANGED testVars

NextHistory == HistoryAdd

SpecHistory == InitHistory /\ [][NextHistory]_vars

(***************************************************************************)
(* Single calls of the Converter.                                          *)
(***************************************************************************)
T_a == Placeholder(<<"environment", ".", "a">>)
T_b == Placeholder(<<"environment", ".", "b">>)
T_env == Placeholder(<<"environment">>)
T_env_dot == Placeholder(<<"environment", ".">>)
T_r_status == Placeholder(<<"history", ".", "r", ".", "status">>)
T_r_bogus == Placeholder(<<"history", ".", "r", ".", "bogus">>)
T_r_status_extra ==
  Placeholder(<<"history", ".", "r", ".", "status", ".", "extra">>)
T_r_json_id == Placeholder(<<"history", ".", "r", ".", "json", ".", "id">>)
T_r_header == Placeholder(<<"history", ".", "r", ".", "headers", ".", "h">>)

ConvInputs ==
  { StrV(<<"p">>), StrV(T_a_b), StrV(T_a), StrV(T_env), StrV(T_env_dot),
    StrV(T_nope), StrV(T_last_status), StrV(Placeholder(<<"other", ".", "x">>)),
    StrV(<<"v", ":">> \o T_a_b \o <<"/">> \o T_a_b),
    StrV(T_a \o <<" ">> \o T_b),
    StrV(T_r_status), StrV(<<"v", ":">> \o T_r_bogus), StrV(T_r_status_extra),
    StrV(T_r_header), StrV(T_r_json_id),
    StrV(Placeholder(<<"environment", ".", "a", ".", "5">>)),
    StrV(Placeholder(<<"environment", ".", "a", ".", "1">>)),
    StrV(Placeholder(<<"environment", ".", "a", ".", "k">>)),
    StrV(Placeholder(<<"environment", ".", "b", ".", "k">>)),
    StrV(Placeholder(<<"environment", ".", "b", ".", "0">>)),
    StrV(Placeholder(<<"environment", ".", "0">>)),
    DictV(<<Entry(T_b, IntV(1)), Entry(<<"x">>, IntV(2)), Entry(<<"k">>, StrV(T_b))>>),
    IntV(7), NoneV,
    ListV(<<StrV(T_a_b), IntV(1)>>),
    DictV(<<Entry(T_b, StrV(T_a_b)), Entry(<<"k">>, StrV(T_nope))>>),
    DictV(<<Entry(<<"k">>, StrV(T_a_b))>>) }

ConvEnvironments ==
  { DictV(<<>>),
    DictV(<<Entry(<<"a">>, DictV(<<Entry(<<"b">>, IntV(7))>>))>>),
    DictV(<<Entry(<<"a">>, StrV(T_b)), Entry(<<"b">>, StrV(<<"x">>))>>),
    DictV(<<Entry(<<"a">>, ListV(<<IntV(1), IntV(2)>>)), Entry(<<"b">>, IntV(0))>>) }

InitConvert ==
  /\ script = Script(DictV(<<>>), <<>>)
  /\ session = "Collaborator"
  /\ environment \in ConvEnvironments
  /\ \E recorded \in BOOLEAN :
       /\ h_labels = IF recorded THEN << <<"r">> >> ELSE <<>>
       /\ h_responses = IF recorded THEN [l \in {<<"r">>} |-> R200] ELSE NoResponses
       /\ h_log = IF recorded
                  THEN <<[p |-> <<"r">>, response |-> R200, ok |-> TRUE]>>
                  ELSE <<>>
  /\ pc = "Convert"
  /\ number = 0
  /\ testno = 0
  /\ request = NoRequest
  /\ failure = NoFailure
  /\ log = <<>>
  /\ assigned = <<>>
  /\ atfail = NotFailed
  /\ h_exc = Ok(NoneV)
  /\ cv_in \in ConvInputs
  /\ cv_out = Ok(NoneV)
  /\ cv_again = Ok(NoneV)
  /\ t_in = NoTest
  /\ t_out = NoResult

\* convert(cv_in) is called.
Convert ==
  /\ pc = "Convert"
  /\ pc' = "Converted"
  /\ cv_out' = convert(cv_in, environment, h_labels, h_responses)
  /\ UNCHANGED <<script, session, environment, number, testno, request, failure,
                 log, assigned, atfail, cv_in, cv_again>>
  /\ UNCHANGED histVars
  /\ UNCHANGED testVars

\* convert is called on what convert(cv_in) returned.
Reconvert ==
  /\ pc = "Converted"
  /\ cv_out.ok
  /\ pc' = "Reconverted"
  /\ cv_again' = convert(cv_out.val, environment, h_labels, h_responses)
  /\ UNCHANGED <<script, session, environment, number, testno, request, failure,
                 log, assigned, atfail, cv_in, cv_out>>
  /\ UNCHANGED histVars
  /\ UNCHANGED testVars

NextConvert ==
  \/ Convert
  \/ Reconvert

SpecConvert == InitConvert /\ [][NextConvert]_vars

(***************************************************************************)
(* Single calls of test.run.                                               *)
(***************************************************************************)
StatusTests ==
  { Test("status", StrV(T_200)), Test("status", IntV(200)),
    Test("status", IntV(404)), Test("status", StrV(<<"4", "0", "4">>)),
    Test("status", StrV(T_x)), Test("status", StrV(T_last_status)),
    Test("status", StrV(<<"x">>)) }

EqualTests ==
  { Test("eq", ListV(<<IntV(1), IntV(1)>>)),
    Test("eq", ListV(<<IntV(1), IntV(2)>>)),
    Test("eq", ListV(<<IntV(1), StrV(<<"1">>)>>)),
    Test("eq", ListV(<<StrV(T_x), StrV(T_200)>>)),
    Test("eq", ListV(<<StrV(T_nope), IntV(1)>>)),
    Test("eq", ListV(<<ListV(<<IntV(1)>>), ListV(<<IntV(1)>>)>>)),
    Test("eq", ListV(<<ListV(<<IntV(1)>>), ListV(<<IntV(2)>>)>>)),
    Test("eq", ListV(<<DictV(<<Entry(<<"k">>, StrV(T_x))>>),
                       DictV(<<Entry(<<"k">>, StrV(T_200))>>)>>)),
    Test("eq", ListV(<<DictV(<<Entry(<<"k">>, IntV(1)), Entry(<<"j">>, IntV(2))>>),
                       DictV(<<Entry(<<"j">>, IntV(2)), Entry(<<"k">>, IntV(1))>>)>>)),
    Test("eq", ListV(<<DictV(<<Entry(<<"k">>, ListV(<<IntV(1)>>))>>),
                       DictV(<<Entry(<<"k">>, ListV(<<IntV(1)>>))>>)>>)),
    Test("eq", ListV(<<>>)),
    Test("eq", ListV(<<StrV(T_nope)>>)),
    Test("eq", ListV(<<IntV(1), IntV(2), IntV(3)>>)),
    Test("eq", ListV(<<StrV(T_nope), IntV(1), IntV(1)>>)),
    Test("eq", ListV(<<StrV(T_r_json_id), IntV(1), IntV(1)>>)) }

OtherTests ==
  { Test("sleep", StrV(<<"0", ".", "1">>)), Test("sleep", StrV(T_nope)),
    Test("update_environment", DictV(<<Entry(<<"y">>, StrV(T_x))>>)),
    Test("print", StrV(T_last_status)) }

TestPool == StatusTests \cup EqualTests \cup OtherTests

TestEnvironments ==
  { DictV(<<>>), DictV(<<Entry(<<"x">>, StrV(T_200))>>),
    DictV(<<Entry(<<"x">>, IntV(404))>>) }

\* A History is given by the adds that were made to it.
Recorded(adds) ==
  [labels |-> [i \in 1..Len(adds) |-> adds[i].p],
   responses |-> [l \in {adds[i].p : i \in 1..Len(adds)} |->
                   adds[CHOOSE i \in 1..Len(adds) : adds[i].p = l].response],
   log |-> adds]

TestHistories ==
  { Recorded(<<>>),
    Recorded(<<[p |-> <<"r">>, response |-> R200, ok |-> TRUE]>>),
    Recorded(<<[p |-> <<"r">>, response |-> R404, ok |-> TRUE]>>),
    Recorded(<<[p |-> <<"r">>, response |-> R404, ok |-> TRUE],
               [p |-> <<"q">>, response |-> R200, ok |-> TRUE]>>) }

InitTest ==
  /\ script = Script(DictV(<<>>), <<>>)
  /\ session = "Collaborator"
  /\ environment \in TestEnvironments
  /\ \E h \in TestHistories :
       /\ h_labels = h.labels
       /\ h_responses = h.responses
       /\ h_log = h.log
  /\ pc = "Test"
  /\ number = 0
  /\ testno = 0
  /\ request = NoRequest
  /\ failure = NoFailure
  /\ log = <<>>
  /\ assigned = <<>>
  /\ atfail = NotFailed
  /\ h_exc = Ok(NoneV)
  /\ cv_in = NoneV
  /\ cv_out = Ok(NoneV)
  /\ cv_again = Ok(NoneV)
  /\ t_in \in TestPool
  /\ t_out = NoResult

\* t_in.run(session, converter, environment) is called.
RunTest ==
  /\ pc = "Test"
  /\ pc' = "Tested"
  /\ t_out' = Test_run(t_in, environment, h_labels, h_responses)
  /\ environment' = t_out'.environment
  /\ assigned' = t_out'.assignments
  /\ UNCHANGED <<script, session, number, testno, request, failure, log,
                 atfail, t_in>>
  /\ UNCHANGED histVars
  /\ UNCHANGED convVars

NextTest == RunTest

SpecTest == InitTest /\ [][NextTest]_vars

(***************************************************************************)
(* Properties.                                                             *)
(***************************************************************************)
Steps == 1..Len(script.steps)

IsTestEvent(e) == e.ev \in {"test", "testfail"}

\* The test events of step s, in the order they happened.
TestEvents(s) == SelectSeq(log, LAMBDA e : e.step = s /\ IsTestEvent(e))

CountEvents(ev, s) ==
  Cardinality({i \in 1..Len(log) : log[i].ev = ev /\ log[i].step = s})

\* C1: Script.process is fail-fast.  Once a step has failed, whatever the
\* reason, the run is over: nothing is done for any later step (no
\* resolution, no request, no exchange, no test), and the Environment and
\* the History stay as the failed step left them.
C1_FailFast ==
  atfail.step # 0 =>
    /\ pc = "StepFailed"
    /\ \A i \in 1..Len(log) : log[i].step <= atfail.step
    /\ log[Len(log)].step = atfail.step
    /\ environment = atfail.environment
    /\ h_labels = atfail.labels
    /\ h_responses = atfail.responses

\* The first of several steps failed, with the ClientSession of the
\* repository or on an assertion: the later steps were never started.
C1_Witness ==
  /\ pc = "StepFailed"
  /\ atfail.step < Len(script.steps)
  /\ \/ session = "ClientSession" /\ atfail.exc.kind = "TypeError"
     \/ atfail.exc.kind = "AssertionError" /\ Len(h_labels) > 0

\* C2: when an assertion of a test is violated, the failure that leaves
\* Script.process is a structured test failure (TestError) that carries the
\* tag of the failing variant, on top of the step's label and position.
C2_TestFailureCarriesTag ==
  (pc = "StepFailed" /\ log[Len(log)].ev = "testfail"
     /\ log[Len(log)].kind = "AssertionError") =>
    /\ failure.kind = "FailedStepError"
    /\ failure.label = script.steps[atfail.step].label
    /\ failure.failed_step = atfail.step
    /\ failure.cause.kind = "TestError"
    /\ InSeq(log[Len(log)].tag, failure.cause.arg)

\* C3: every error raised while step i of N is processed leaves
\* Script.process as one FailedStepError with the label of that step, the
\* position i, the total N and the error itself as its cause.
C3_FailedStepWraps ==
  /\ (atfail.step # 0) = (failure.kind # "none")
  /\ atfail.step # 0 =>
       /\ failure.kind = "FailedStepError"
       /\ failure.label = script.steps[atfail.step].label
       /\ failure.failed_step = atfail.step
       /\ failure.failed_step = log[Len(log)].step
       /\ failure.total = Len(script.steps)
       /\ failure.cause = atfail.exc

\* A step of a script of two failed with an error that is no RestingError:
\* the TypeError of ClientSession._request, or the ValueError of
\* History.add in the second step.
C3_Witness ==
  /\ pc = "StepFailed"
  /\ failure.total = 2
  /\ \/ session = "ClientSession" /\ failure.cause.kind = "TypeError"
     \/ failure.failed_step = 2 /\ failure.cause.kind = "ValueError"

C5_ExchangeRegistered ==
  /\ \A s \in Steps :
       (CountEvents("request", s) > 0 /\ ~(pc = "Exchange" /\ number = s))
         => CountEvents("exchange", s) = 1
  /\ pc = "Tests" =>
       /\ Len(h_labels) = number
       /\ Len(h_log) = number
       /\ h_log[number].p = script.steps[number].label
       /\ History_last(h_labels, h_responses) = Ok(h_log[number].response)

IsIntegerText(label) == ParseInt(label).ok

\* C6: History.add rejects every label that parses fully as an integer and
\* the label "last": no add asked for such a label has stored anything, and
\* no stored label is integer text or "last".
C6_IntegerAndReservedRejected ==
  /\ \A i \in 1..Len(h_log) :
       ~IsIntegerText(h_log[i].p) /\ h_log[i].p # <<"last">>
  /\ \A i \in 1..Len(h_labels) :
       ~IsIntegerText(h_labels[i]) /\ h_labels[i] # <<"last">>

\* The label an add asked for p is given when prev are the labels stored.
ExpectedLabel(prev, p) ==
  IF ~InSeq(p, prev) THEN p
  ELSE p \o IntToStr(CHOOSE k \in 2..(Len(prev) + 2) :
                       /\ ~InSeq(p \o IntToStr(k), prev)
                       /\ \A m \in 2..(k - 1) : InSeq(p \o IntToStr(m), prev))

\* C7: the stored labels are pairwise distinct, and an add asked for p has
\* stored p when p was free, else p followed by the smallest k >= 2 that
\* made a free label.
C7_LabelsUnique ==
  /\ Len(h_log) = Len(h_labels)
  /\ \A i \in 1..Len(h_labels) :
       h_labels[i] = ExpectedLabel(SubSeq(h_labels, 1, i - 1), h_log[i].p)
  /\ \A i, j \in 1..Len(h_labels) : i # j => h_labels[i] # h_labels[j]

\* "r" was added three times: "r", "r2", "r3".
C7_Witness ==
  /\ h_labels = << <<"r">>, <<"r", "2">>, <<"r", "3">> >>
  /\ \A i \in 1..Len(h_log) : h_log[i].p = <<"r">>

AllAddsSucceeded == \A i \in 1..Len(h_log) : h_log[i].ok

\* The number of adds that returned.
SuccessfulAdds == Cardinality({i \in 1..Len(h_log) : h_log[i].ok})

\* C8: the entry at index k is, and stays, the response of the (k+1)-th add
\* that returned; after successful adds only, the length is the number of
\* adds; index -1 and the alias "last" are the response of the latest add.
C8_AppendOnly ==
  /\ \A k \in 0..(Len(h_log) - 1) :
       h_log[k + 1].ok =>
         History_getitem_int(h_labels, h_responses, k) = Ok(h_log[k + 1].response)
  /\ AllAddsSucceeded => Len(h_labels) = SuccessfulAdds
  /\ (Len(h_log) > 0 /\ h_log[Len(h_log)].ok) =>
       /\ History_getitem_int(h_labels, h_responses, 0 - 1)
            = Ok(h_log[Len(h_log)].response)
       /\ History_getitem_str(h_labels, h_responses, <<"last">>)
            = Ok(h_log[Len(h_log)].response)

\* Three adds succeeded, the first and the last with different responses.
C8_Witness ==
  /\ AllAddsSucceeded
  /\ Len(h_log) >= 3
  /\ h_log[1].response # h_log[Len(h_log)].response

\* The value of the latest assignment to key k.
LastAssigned(k) ==
  assigned[CHOOSE i \in 1..Len(assigned) :
             /\ assigned[i].k = k
             /\ \A j \in (i + 1)..Len(assigned) : assigned[j].k # k].v

FirstPath(value) == Head(FindAll(value.v))

RefersToEnvironment(value) ==
  /\ value.t = "str"
  /\ FindAll(value.v) # <<>>
  /\ Head(Split(FirstPath(value))) = <<"environment">>

\* C10: a placeholder environment.<rest> raises EmptyEnvironment when the
\* Environment is empty or <rest> is empty; with the Environment
\* {"a": {"b": 7}} the path environment.a.b resolves to 7.
C10_EmptyEnvironment ==
  pc = "Converted" =>
    /\ (RefersToEnvironment(cv_in)
          /\ (environment.v = <<>> \/ Tail(Split(FirstPath(cv_in))) = <<>>))
         => (~cv_out.ok /\ cv_out.kind = "EmptyEnvironment")
    /\ (cv_in = StrV(T_a_b)
          /\ environment = DictV(<<Entry(<<"a">>, DictV(<<Entry(<<"b">>, IntV(7))>>))>>))
         => cv_out = Ok(StrV(<<"7">>))

\* The response of the latest add.
Newest == h_log[Len(h_log)].response

\* C11: a Status test run on an empty History fails with the assertion
\* failure "no last request found", and on an empty History History.last
\* and History.last_label yield None and raise nothing.
C11_StatusOnEmptyHistory ==
  h_labels = <<>> =>
    /\ History_last(h_labels, h_responses) = Ok(NoneV)
    /\ History_last_label(h_labels) = NoneV
    /\ (pc = "Tested" /\ t_in.tag = "status") =>
         t_out.exc = Raise("AssertionError", <<"no last request found">>)

\* sub occurs in the text s.
Contains(s, sub) ==
  \E i \in 1..(Len(s) - Len(sub) + 1) : SubSeq(s, i, i + Len(sub) - 1) = sub

\* The converted expected value is a number or numeric text.
IsNumeric(c) == c.ok /\ (c.val.t = "int" \/ (c.val.t = "str" /\ IsIntegerText(c.val.v)))

\* The integer a number or numeric text stands for.
IntegerOf(value) == IF value.t = "int" THEN value.v ELSE ParseInt(value.v).n

\* What a Status test with the converted expected value c must leave when
\* the last entry has the given status.
StatusOutcome(c, status, exc) ==
  /\ exc.ok = (IntegerOf(c) = status)
  /\ ~exc.ok =>
       /\ exc.kind = "AssertionError"
       /\ Contains(exc.arg, IntToStr(status))
       /\ Contains(exc.arg, IntToStr(IntegerOf(c)))

\* C12: on a non-empty History a Status test whose converted expected value
\* is a number or numeric text succeeds exactly when that integer is the
\* status of the last entry, a mismatch is an assertion failure naming both
\* statuses, and the call leaves the Environment and the History as they
\* were.
C12_StatusCompares ==
  [][(pc = "Test" /\ t_in.tag = "status" /\ h_labels # <<>>) =>
       /\ environment' = environment
       /\ h_labels' = h_labels
       /\ h_responses' = h_responses
       /\ t_out'.assignments = <<>>
       /\ IsNumeric(convert(t_in.arg, environment, h_labels, h_responses)) =>
            StatusOutcome(convert(t_in.arg, environment, h_labels, h_responses).val,
                          Newest.status, t_out'.exc)]_vars

\* The expected status came as text out of a placeholder and matched the
\* last status.
C12_Witness ==
  /\ pc = "Tested"
  /\ t_in = Test("status", StrV(T_x))
  /\ h_labels # <<>>
  /\ Newest.status = 200
  /\ t_out.exc.ok

RECURSIVE Deep(_, _, _, _)
\* The converted value of a value whose placeholders all resolve, with
\* every sequence in it a sequence of the converted items.
Deep(value, env, labels, responses) ==
  CASE value.t = "list" ->
         ListV([i \in 1..Len(value.v) |-> Deep(value.v[i], env, labels, responses)])
    [] value.t = "dict" ->
         DictV([i \in 1..Len(value.v) |->
                  Entry(convert(StrV(value.v[i].k), env, labels, responses).val.v,
                        Deep(value.v[i].v, env, labels, responses))])
    [] OTHER -> convert(value, env, labels, responses).val

\* C13: an Equal test of two elements that convert succeeds exactly when the
\* converted elements are structurally equal, sequences and maps included.
C13_EqualDeep ==
  (/\ pc = "Tested"
   /\ t_in.tag = "eq"
   /\ Len(t_in.arg.v) = 2
   /\ convert(t_in.arg.v[1], environment, h_labels, h_responses).ok
   /\ convert(t_in.arg.v[2], environment, h_labels, h_responses).ok) =>
    /\ t_out.exc.ok
         = PyEq(Deep(t_in.arg.v[1], environment, h_labels, h_responses),
                Deep(t_in.arg.v[2], environment, h_labels, h_responses))
    /\ ~t_out.exc.ok => t_out.exc.kind = "AssertionError"

\* C14: an Equal test whose list has not exactly two elements fails with
\* the arity error whatever the elements are, also when one cannot be
\* resolved or names a body that cannot be read, and assigns nothing.
C14_EqualArity ==
  (pc = "Tested" /\ t_in.tag = "eq" /\ Len(t_in.arg.v) # 2) =>
    /\ t_out.exc = Raise("AssertionError", <<"only two items can be compared">>)
    /\ t_out.assignments = <<>>

\* A list of three whose first element does not resolve was given.
C14_Witness ==
  /\ pc = "Tested"
  /\ t_in.tag = "eq"
  /\ Len(t_in.arg.v) = 3
  /\ ~convert(t_in.arg.v[1], environment, h_labels, h_responses).ok

\* history.<key>.status, as History.get_value_by_path resolves it.
StatusAt(key) ==
  History_get_value_by_path(h_labels, h_responses, <<key, <<"status">> >>)

\* C15: on a non-empty History the paths last.status, -1.status and
\* <newest label>.status all resolve to the status of the latest add; on an
\* empty History last.status raises a lookup error.
C15_NewestStatus ==
  /\ h_labels = <<>> =>
       (~StatusAt(<<"last">>).ok /\ StatusAt(<<"last">>).kind \in LookupErrors)
  /\ (h_labels # <<>> /\ AllAddsSucceeded) =>
       \A key \in {<<"last">>, <<"-", "1">>, h_labels[Len(h_labels)]} :
         StatusAt(key) = Ok(IntV(Newest.status))

\* The tail of a history path names a field get_value_by_path knows.
TailRecognised(rest) ==
  \/ Len(rest) = 2 /\ rest[1] \in {<<"headers">>, <<"cookies">>}
  \/ Len(rest) >= 1 /\ rest[1] = <<"json">>
  \/ rest = << <<"status">> >>
  \/ rest = << <<"reason">> >>

\* The first placeholder of the text names an entry of the History and a
\* tail that is no field of a response.
UnrecognisedHistoryTail(value) ==
  /\ value.t = "str"
  /\ FindAll(value.v) # <<>>
  /\ Len(Split(FirstPath(value))) >= 2
  /\ Split(FirstPath(value))[1] = <<"history">>
  /\ History_get_item(h_labels, h_responses, Split(FirstPath(value))[2]).ok
  /\ ~TailRecognised(Tail(Tail(Split(FirstPath(value)))))

\* C16: converting a text whose history path selects an existing entry but
\* names no response field raises a history lookup error; no text comes
\* back.
C16_UnknownFieldFails ==
  (pc = "Converted" /\ UnrecognisedHistoryTail(cv_in)) =>
    (~cv_out.ok /\ cv_out.kind \in LookupErrors \cup {"ValueError"})

\* The state of the run: NotStarted, RunningStep(i), StepFailed(i),
\* Completed.
RunState ==
  CASE pc = "NotStarted" -> <<"NotStarted", 0>>
    [] pc \in {"Resolve", "Exchange", "Tests"} -> <<"RunningStep", number>>
    [] pc = "StepFailed" -> <<"StepFailed", number>>
    [] OTHER -> <<pc, 0>>

\* The numbers of the steps that were started, in the order of starting.
StartedSteps ==
  LET st == SelectSeq(log, LAMBDA e : e.ev = "step")
  IN [i \in 1..Len(st) |-> st[i].step]

\* Step s made its exchange, registered the response and passed every one
\* of its tests.
StepSucceeded(s) ==
  /\ CountEvents("exchange", s) = 1
  /\ Len(h_log) >= s
  /\ h_log[s].ok
  /\ Len(TestEvents(s)) = Len(script.steps[s].tests)
  /\ \A k \in 1..Len(TestEvents(s)) : TestEvents(s)[k].ev = "test"

\* The transitions of the run.
RunTransition ==
  \/ RunState' = RunState /\ pc \notin {"StepFailed", "Completed"}
  \/ /\ RunState = <<"NotStarted", 0>>
     /\ RunState' = IF Len(script.steps) = 0 THEN <<"Completed", 0>>
                    ELSE <<"RunningStep", 1>>
  \/ \E i \in Steps :
       /\ RunState = <<"RunningStep", i>>
       /\ \/ i < Len(script.steps) /\ RunState' = <<"RunningStep", i + 1>>
               /\ StepSucceeded(i)'
          \/ RunState' = <<"StepFailed", i>> /\ ~StepSucceeded(i)'
          \/ i = Len(script.steps) /\ RunState' = <<"Completed", 0>>
               /\ StepSucceeded(i)'

WasCancelled == \E i \in 1..Len(log) : log[i].ev = "cancel"

AllResolve(value) ==
  Substitutes(FindAll(value.v), environment, h_labels, h_responses).ok

RECURSIVE SinglePass(_, _)
\* The text s from position i on with every placeholder of s replaced by
\* the text of its value; the text put in is not looked at again.
SinglePass(s, i) ==
  IF i > Len(s) THEN <<>>
  ELSE IF s[i] = "{" /\ RunEnd(s, i + 1) > i + 1 /\ RunEnd(s, i + 1) <= Len(s)
          /\ s[RunEnd(s, i + 1)] = "}"
  THEN PyStr(substitute(SubSeq(s, i + 1, RunEnd(s, i + 1) - 1), environment,
                        h_labels, h_responses).val)
       \o SinglePass(s, RunEnd(s, i + 1) + 1)
  ELSE <<s[i]>> \o SinglePass(s, i + 1)

\* C19: convert of a text raises when a placeholder does not resolve, and
\* otherwise returns the original text with each placeholder replaced by
\* the text of its value, text brought in by a value staying as it is.
C19_ReplaceOnOriginal ==
  (pc = "Converted" /\ cv_in.t = "str") =>
    IF AllResolve(cv_in)
    THEN cv_out = Ok(StrV(SinglePass(cv_in.v, 1)))
    ELSE ~cv_out.ok

\* C20: convert of a sequence returns a sequence of the same length whose
\* k-th item is the converted k-th item of the input.
C20_SequenceConverted ==
  (pc = "Converted" /\ cv_in.t = "list") =>
    /\ cv_out.ok
    /\ cv_out.val.t = "list"
    /\ Len(cv_out.val.v) = Len(cv_in.v)
    /\ \A k \in 1..Len(cv_in.v) :
         convert(cv_in.v[k], environment, h_labels, h_responses).ok =>
           cv_out.val.v[k]
             = convert(cv_in.v[k], environment, h_labels, h_responses).val

\* The converted key and the converted value of entry i of the map m.
ConvertedKey(m, i) ==
  convert(StrV(m.v[i].k), environment, h_labels, h_responses).val.v

ConvertedValue(m, i) ==
  convert(m.v[i].v, environment, h_labels, h_responses).val

DistinctKeys(m) ==
  \A i, j \in 1..Len(m.v) : i # j => ConvertedKey(m, i) # ConvertedKey(m, j)

\* C21 as stated: convert of a map whose placeholders resolve returns a map
\* with as many entries as the input, entry i being (convert(k), convert(v))
\* of input entry i, also when two keys convert to the same text.
C21_MapShapeAlways ==
  (pc = "Converted" /\ cv_in.t = "dict" /\ cv_out.ok) =>
    /\ cv_out.val.t = "dict"
    /\ Len(cv_out.val.v) = Len(cv_in.v)
    /\ \A i \in 1..Len(cv_in.v) :
         cv_out.val.v[i] = Entry(ConvertedKey(cv_in, i), ConvertedValue(cv_in, i))

\* C21, amended: convert of a map whose placeholders resolve returns a map
\* whose keys are the converted keys of the input; when these are pairwise
\* distinct it has one entry (convert(k), convert(v)) per input entry, in
\* the order of the input; keys that convert to the same text share one
\* entry, which holds the converted value of the last of them.
C21_MapShape ==
  (pc = "Converted" /\ cv_in.t = "dict" /\ cv_out.ok) =>
    /\ cv_out.val.t = "dict"
    /\ Len(cv_out.val.v)
         = Cardinality({ConvertedKey(cv_in, i) : i \in 1..Len(cv_in.v)})
    /\ \A j \in 1..Len(cv_out.val.v) :
         \E i \in 1..Len(cv_in.v) : cv_out.val.v[j].k = ConvertedKey(cv_in, i)
    /\ \A i \in 1..Len(cv_in.v) :
         /\ HasKey(cv_out.val.v, ConvertedKey(cv_in, i))
         /\ (\A j \in (i + 1)..Len(cv_in.v) :
               ConvertedKey(cv_in, j) # ConvertedKey(cv_in, i))
              => DictGet(cv_out.val.v, ConvertedKey(cv_in, i))
                   = ConvertedValue(cv_in, i)
    /\ DistinctKeys(cv_in) =>
         cv_out.val.v = [i \in 1..Len(cv_in.v) |->
                           Entry(ConvertedKey(cv_in, i), ConvertedValue(cv_in, i))]

\* A map of three entries with a templated key was converted, the
\* converted keys being distinct.
C21_Witness ==
  /\ pc = "Converted"
  /\ cv_in.t = "dict"
  /\ Len(cv_in.v) = 3
  /\ cv_out.ok
  /\ DistinctKeys(cv_in)
  /\ ConvertedKey(cv_in, 1) # cv_in.v[1].k

RECURSIVE NoPlaceholder(_)
\* No text of the value, at any depth convert looks into, holds a
\* placeholder.
NoPlaceholder(value) ==
  CASE value.t = "str" -> FindAll(value.v) = <<>>
    [] value.t = "dict" ->
         \A i \in 1..Len(value.v) :
           /\ FindAll(value.v[i].k) = <<>>
           /\ NoPlaceholder(value.v[i].v)
    [] OTHER -> TRUE

Addressable(data, seg) ==
  IF IsIntegerText(seg)
  THEN data.t = "list" /\ PyIndex(data.v, ParseInt(seg).n).ok
  ELSE data.t = "dict" /\ HasKey(data.v, seg)

Addressed(data, seg) ==
  IF IsIntegerText(seg) THEN PyIndex(data.v, ParseInt(seg).n).val
  ELSE DictGet(data.v, seg)

RECURSIVE Resolvable(_, _)
\* Every segment of the path addresses the container it meets.
Resolvable(path, data) ==
  \/ path = <<>>
  \/ /\ Addressable(data, Head(path))
     /\ Resolvable(Tail(path), Addressed(data, Head(path)))

RECURSIVE OffendingSegment(_, _)
\* The first segment of a path that is not resolvable which does not
\* address its container.
OffendingSegment(path, data) ==
  IF ~Addressable(data, Head(path)) THEN Head(path)
  ELSE OffendingSegment(Tail(path), Addressed(data, Head(path)))

\* The text is one placeholder, and it names an environment path.
OneEnvironmentPath(value) ==
  /\ RefersToEnvironment(value)
  /\ value.v = Placeholder(FirstPath(value))
  /\ Tail(Split(FirstPath(value))) # <<>>
  /\ \A i \in 1..Len(Split(FirstPath(value))) : Split(FirstPath(value))[i] # <<>>

\* C23: an environment path resolves when each segment addresses its
\* container, an integer segment as an index and any other as a key;
\* otherwise resolution raises InvalidPath naming the path and the first
\* segment that could not be resolved.
C23_OffendingSegmentNamed ==
  (pc = "Converted" /\ OneEnvironmentPath(cv_in) /\ environment.v # <<>>) =>
    IF Resolvable(Tail(Split(FirstPath(cv_in))), environment)
    THEN cv_out.ok
    ELSE /\ ~cv_out.ok
         /\ cv_out.kind = "InvalidPath"
         /\ cv_out.path = FirstPath(cv_in)
         /\ cv_out.arg = OffendingSegment(Tail(Split(FirstPath(cv_in))), environment)

\* The Converter resolves v in the current state.
Converts(v) == convert(v, environment, h_labels, h_responses).ok

\* The method, the url, every header and the json body of the step resolve.
FieldsResolve(step) ==
  /\ Converts(StrV(step.method))
  /\ Converts(StrV(step.url))
  /\ \A i \in 1..Len(step.headers) :
       Converts(StrV(step.headers[i].name)) /\ Converts(StrV(step.headers[i].value))
  /\ Converts(step.json)

\* C24: a step one of whose fields does not resolve fails at once, with the
\* Environment and the History as they were; no request is made, no exchange
\* is issued and no test is run for it.
C24_ResolutionBeforeExchange ==
  /\ [][(pc = "Resolve" /\ ~FieldsResolve(CurrentStep)) =>
         /\ pc' = "StepFailed"
         /\ failure'.kind = "FailedStepError"
         /\ environment' = environment
         /\ h_labels' = h_labels
         /\ h_responses' = h_responses]_vars
  /\ [](\A i \in 1..Len(log) :
          (log[i].ev = "step" /\ log[i].kind # "") =>
            /\ CountEvents("request", log[i].step) = 0
            /\ CountEvents("exchange", log[i].step) = 0
            /\ Len(TestEvents(log[i].step)) = 0)

\* A step with tests whose method and url resolve failed on a header.
C24_Witness ==
  /\ pc = "StepFailed"
  /\ log[Len(log)].ev = "step"
  /\ log[Len(log)].kind = "InvalidPath"
  /\ Converts(StrV(script.steps[number].url))
  /\ Len(script.steps[number].headers) > 0
  /\ Len(script.steps[number].tests) > 0

\* C25: when every add has returned, each stored label followed by status
\* resolves to the status of the response stored under that label.
C25_LabelAddressesItsEntry ==
  AllAddsSucceeded =>
    \A i \in 1..Len(h_labels) :
      StatusAt(h_labels[i]) = Ok(IntV(h_log[i].response.status))

====
